---------------------------- MODULE Spec2Model ----------------------------
(***************************************************************************)
(* Model of the two analysis scripts of the repository:                    *)
(*   Md.x/checkcoext.py     analyze_coexistence, find_continuous_regions   *)
(*   Test_1/TI/muna3rdpy.py the Birch-Murnaghan EOS fitting script         *)
(*                                                                         *)
(* Densities are integers (a fixed-point grid).  Every statistic is kept   *)
(* exactly: a number is (a + b*sqrt(v))/m, a fraction is n/d, and every    *)
(* comparison of the code is decided exactly on these forms.  IEEE-754     *)
(* rounding is not modelled; 0/0 is the value NaN, which compares false.   *)
(***************************************************************************)
EXTENDS Integers, Sequences, FiniteSets, TLC

\* ------------------------------------------------------------- bounds
MaxN == 4          \* longest density profile (rows of the file)
MaxVal == 3        \* densities range over 0..MaxVal
MaxPeaks == 2      \* histogram peaks reported by the peak finder: 0..MaxPeaks
MaxMask == 5       \* longest mask handed to find_continuous_regions alone
MaxFrac == 5       \* sample count of the free (score, fraction) triples
MaxParam == 2      \* distinct parameter triples / volumes a fit or root may return

VARIABLES
  \* analyze_coexistence
  pc, density_file, plot, densities, statistics, thresholds, masks, fractions,
  interface_analysis, scores, coexistence_score, system_state,
  solid_regions, liquid_regions, printed, plotted, results, error,
  \* find_continuous_regions
  mask, i, start, regions, rpc,
  \* muna3rdpy.py
  epc, V, solid_params, liquid_params, vol_s, vol_l, output, eerror, trace

avars == <<pc, density_file, plot, densities, statistics, thresholds, masks,
           fractions, interface_analysis, scores, coexistence_score,
           system_state, solid_regions, liquid_regions, printed, plotted,
           results, error>>
rvars == <<mask, i, start, regions, rpc>>
evars == <<epc, V, solid_params, liquid_params, vol_s, vol_l, output, eerror, trace>>
vars == <<avars, rvars, evars>>

\* Python's None, for a value not computed yet
None == "None"

\* ------------------------------------------------------- exact numbers
\* (a + b*sqrt(v)) / m with m > 0
Num(a, b, v, m) == [a |-> a, b |-> b, v |-> v, m |-> m]
Rat(a, m) == Num(a, 0, 0, m)

\* sign of A + B*sqrt(v), v >= 0: -1, 0 or 1
SurdSign(A, B, v) ==
  LET t == B * B * v IN
  IF B = 0 \/ v = 0 THEN (IF A > 0 THEN 1 ELSE IF A < 0 THEN -1 ELSE 0)
  ELSE IF A = 0 THEN (IF B > 0 THEN 1 ELSE -1)
  ELSE IF A > 0 /\ B > 0 THEN 1
  ELSE IF A < 0 /\ B < 0 THEN -1
  ELSE IF A > 0 THEN (IF A * A > t THEN 1 ELSE IF A * A < t THEN -1 ELSE 0)
  ELSE (IF t > A * A THEN 1 ELSE IF t < A * A THEN -1 ELSE 0)

\* sign of x - y
Cmp(x, y) ==
  SurdSign(x.a * y.m - y.a * x.m, x.b * y.m - y.b * x.m,
           IF x.b # 0 THEN x.v ELSE y.v)

\* 0/0
NaN == Num(0, 0, 0, 0)
IsNaN(x) == x.m = 0

\* the float comparisons: any comparison with NaN is false
Lt(x, y) == ~IsNaN(x) /\ ~IsNaN(y) /\ Cmp(x, y) < 0
Gt(x, y) == Lt(y, x)
Leq(x, y) == ~IsNaN(x) /\ ~IsNaN(y) /\ Cmp(x, y) <= 0

\* a/b > c/d for a, c >= 0 and b, d > 0, by continued fractions (no products)
RECURSIVE RatGt(_, _, _, _)
RatGt(a, b, c, d) ==
  IF (a \div b) # (c \div d) THEN (a \div b) > (c \div d)
  ELSE IF a % b = 0 THEN FALSE
  ELSE IF c % d = 0 THEN TRUE
  ELSE RatGt(d, c % d, b, a % b)

Abs(x) == IF x < 0 THEN -x ELSE x

RECURSIVE SumSeq(_)
SumSeq(s) == IF s = <<>> THEN 0 ELSE Head(s) + SumSeq(Tail(s))

\* number of true entries of a mask: np.sum(mask)
Count(m) == Cardinality({k \in DOMAIN m : m[k]})


\* ------------------------------------------- analyze_coexistence: formulas
Paths == {"density.dat", "prod/density.dat"}

\* the arrays np.loadtxt can hand on: a 2-D table has at least two rows (a
\* file of one row or none loads as a 1-D array, and data[:, 0] raises)
DensityArrays == UNION {[1..n -> 0..MaxVal] : n \in 2..MaxN}

\* why loading or column extraction can fail
LoadFailures == {"OSError", "ValueError", "IndexError"}

Sq(x) == x * x

\* np.mean, np.std, cv, and (skew^2 + 1)/(kurtosis + 3) as the fraction n/d
\* (0/0 on a constant array, whose skew is nan), with scipy's default
\* (biased) moments m_k = sum((d - mean)^k)/N; e = N*d - S are the scaled
\* deviations and W = N^2 * variance
Statistics(d) ==
  LET N == Len(d)
      S == SumSeq(d)
      W == N * SumSeq([k \in 1..N |-> Sq(d[k])]) - Sq(S)
      e == [k \in 1..N |-> N * d[k] - S]
      M2 == SumSeq([k \in 1..N |-> Sq(e[k])])
      M3 == SumSeq([k \in 1..N |-> e[k] * Sq(e[k])])
      M4 == SumSeq([k \in 1..N |-> Sq(Sq(e[k]))])
  IN [mean_density |-> Rat(S, N),
      std_density |-> Num(0, 1, W, N),
      cv |-> IF S = 0 THEN NaN ELSE Num(0, 1, W, S),
      bimodality_coefficient |->
         IF M2 = 0 THEN [n |-> 0, d |-> 0]
         ELSE [n |-> N * Sq(M3) + M2 * Sq(M2), d |-> N * M2 * M4]]

\* 4 * np.percentile(d, q) for q = 25*j (linear interpolation between the order
\* statistics at position q/100*(N-1))
Percentile4(d, j) ==
  LET N == Len(d)
      x == SortSeq(d, LAMBDA a, b : a < b)
      k == (j * (N - 1)) \div 4
      r == (j * (N - 1)) % 4
  IN IF r = 0 THEN 4 * x[k + 1]
     ELSE 4 * x[k + 1] + r * (x[k + 2] - x[k + 1])

\* Python's min(a, b) and max(a, b): the first argument wins a tie
Min2(a, b) == IF Lt(b, a) THEN b ELSE a
Max2(a, b) == IF Gt(b, a) THEN b ELSE a

\* mean_density + k_factor * std_density, k_factor = 1.5
HighThreshold(st) ==
  Num(2 * st.mean_density.a, 3, st.std_density.v, 2 * st.mean_density.m)
LowThreshold(st) ==
  Num(2 * st.mean_density.a, -3, st.std_density.v, 2 * st.mean_density.m)

\* p75 + 1.5 * iqr and p25 - 1.5 * iqr, from P25 = 4*p25 and P75 = 4*p75
OutlierHigh(P25, P75) == Rat(2 * P75 + 3 * (P75 - P25), 8)
OutlierLowSignSlip(P25, P75) == Rat(2 * P25 + 3 * (P75 - P25), 8)
OutlierLow(P25, P75) == Rat(2 * P25 - 3 * (P75 - P25), 8)

FinalHighAsMax(h1, h2) == Max2(h1, h2)
FinalHigh(h1, h2) == Min2(h1, h2)
FinalLow(l1, l2) == Max2(l1, l2)

Thresholds(d, st) ==
  LET P25 == Percentile4(d, 1)
      P75 == Percentile4(d, 3)
      h1 == HighThreshold(st)
      l1 == LowThreshold(st)
      h2 == OutlierHigh(P25, P75)
      l2 == OutlierLow(P25, P75)
  IN [high_threshold |-> h1, low_threshold |-> l1,
      outlier_high |-> h2, outlier_low |-> l2,
      final_high |-> FinalHigh(h1, h2), final_low |-> FinalLow(l1, l2)]

SolidMaskAboveLow(d, th) == [k \in DOMAIN d |-> Gt(Rat(d[k], 1), th.final_low)]
SolidMask(d, th) == [k \in DOMAIN d |-> Gt(Rat(d[k], 1), th.final_high)]
LiquidMask(d, th) == [k \in DOMAIN d |-> Lt(Rat(d[k], 1), th.final_low)]
InterfaceMaskNotSolid(solid, liquid) == [k \in DOMAIN solid |-> ~solid[k]]
InterfaceMask(solid, liquid) == [k \in DOMAIN solid |-> ~(solid[k] \/ liquid[k])]

\* np.sum(mask) / len(densities), kept as the fraction n/d
Fraction(m) == [n |-> Count(m), d |-> Len(m)]

\* 2 * |np.gradient(d)|: one-sided differences at the two ends, central
\* differences (d[k+1] - d[k-1])/2 inside
Gradients2(d) ==
  LET N == Len(d)
  IN [k \in 1..N |->
        IF k = 1 THEN 2 * Abs(d[2] - d[1])
        ELSE IF k = N THEN 2 * Abs(d[N] - d[N - 1])
        ELSE Abs(d[k + 1] - d[k - 1])]

RECURSIVE MaxSeq(_)
MaxSeq(s) ==
  IF Len(s) = 1 THEN s[1]
  ELSE LET t == MaxSeq(Tail(s)) IN IF s[1] > t THEN s[1] ELSE t

\* gradients > mean_density * 0.1
SharpInterfaces(d, st) ==
  LET g == Gradients2(d)
  IN {k \in DOMAIN d :
        Gt(Rat(g[k], 2), Rat(st.mean_density.a, 10 * st.mean_density.m))}

InterfaceAnalysis(d, st, peaks) ==
  LET g == Gradients2(d)
  IN [n_peaks |-> peaks,
      mean_gradient |-> Rat(SumSeq(g), 2 * Len(d)),
      max_gradient |-> Rat(MaxSeq(g), 2),
      n_interfaces |-> Cardinality(SharpInterfaces(d, st))]

\* int(condition)
AsInt(c) == IF c THEN 1 ELSE 0

\* a fraction n/d > p/q
FracGt(f, p, q) == f.n * q > p * f.d

HighCvNotStrict(st) == Leq(Rat(1, 2), st.cv)
HighCv(st) == Gt(st.cv, Rat(1, 2))
BimodalityCoeff(st) ==
  /\ st.bimodality_coefficient.d # 0
  /\ RatGt(st.bimodality_coefficient.n, st.bimodality_coefficient.d, 11, 20)
MultipleInterfaces(ia) == ia.n_interfaces > 2

Scores(st, fr, ia) ==
  [bimodal |-> AsInt(ia.n_peaks >= 2),
   high_cv |-> AsInt(HighCv(st)),
   phase_balance |-> AsInt(FracGt(fr.solid, 1, 10) /\ FracGt(fr.liquid, 1, 10)),
   sharp_gradients |-> AsInt(Gt(ia.mean_gradient, st.std_density)),
   bimodality_coeff |-> AsInt(BimodalityCoeff(st)),
   multiple_interfaces |-> AsInt(MultipleInterfaces(ia))]

CoexistenceScore(sc) ==
  sc.bimodal + sc.high_cv + sc.phase_balance + sc.sharp_gradients
    + sc.bimodality_coeff + sc.multiple_interfaces

SystemStateFractionsFirst(score, solid_fraction, liquid_fraction) ==
  IF FracGt(solid_fraction, 4, 5) THEN "PREDOMINANTLY SOLID"
  ELSE IF FracGt(liquid_fraction, 4, 5) THEN "PREDOMINANTLY LIQUID"
  ELSE IF score >= 4 THEN "STRONG SOLID-LIQUID COEXISTENCE"
  ELSE IF score >= 3 THEN "SOLID-LIQUID COEXISTENCE"
  ELSE IF score >= 2 THEN "POSSIBLE COEXISTENCE"
  ELSE "SINGLE PHASE"
SystemState(score, solid_fraction, liquid_fraction) ==
  IF score >= 4 THEN "STRONG SOLID-LIQUID COEXISTENCE"
  ELSE IF score >= 3 THEN "SOLID-LIQUID COEXISTENCE"
  ELSE IF score >= 2 THEN "POSSIBLE COEXISTENCE"
  ELSE IF FracGt(solid_fraction, 4, 5) THEN "PREDOMINANTLY SOLID"
  ELSE IF FracGt(liquid_fraction, 4, 5) THEN "PREDOMINANTLY LIQUID"
  ELSE "SINGLE PHASE"

\* ------------------------------------------------ find_continuous_regions
\* start = None
NoStart == -1

\* one pass of the for loop at 0-based index idx over the value val;
\* st = [start, regions]
LoopBodyEndsAtIndex(st, idx, val) ==
  IF val /\ st.start = NoStart THEN [st EXCEPT !.start = idx]
  ELSE IF ~val /\ st.start # NoStart
    THEN [start |-> NoStart, regions |-> Append(st.regions, <<st.start, idx>>)]
  ELSE st
LoopBody(st, idx, val) ==
  IF val /\ st.start = NoStart THEN [st EXCEPT !.start = idx]
  ELSE IF ~val /\ st.start # NoStart
    THEN [start |-> NoStart, regions |-> Append(st.regions, <<st.start, idx - 1>>)]
  ELSE st

\* the statement after the loop: a run still open is closed at len(mask) - 1
CloseOpenRun(st, n) ==
  IF st.start # NoStart THEN Append(st.regions, <<st.start, n - 1>>)
  ELSE st.regions

RECURSIVE ScanFrom(_, _, _)
ScanFrom(m, idx, st) ==
  IF idx = Len(m) THEN st
  ELSE ScanFrom(m, idx + 1, LoopBody(st, idx, m[idx + 1]))

FindContinuousRegions(m) ==
  CloseOpenRun(ScanFrom(m, 0, [start |-> NoStart, regions |-> <<>>]), Len(m))

Masks == UNION {[1..n -> BOOLEAN] : n \in 0..MaxMask}

RegionsIdle ==
  /\ mask = <<>> /\ i = 0 /\ start = NoStart /\ regions = <<>> /\ rpc = "idle"

RegionLoop ==
  /\ rpc = "loop"
  /\ i < Len(mask)
  /\ LET st == LoopBody([start |-> start, regions |-> regions], i, mask[i + 1])
     IN /\ start' = st.start
        /\ regions' = st.regions
  /\ i' = i + 1
  /\ UNCHANGED <<mask, rpc, avars, evars>>

RegionReturn ==
  /\ rpc = "loop"
  /\ i = Len(mask)
  /\ regions' = CloseOpenRun([start |-> start, regions |-> regions], Len(mask))
  /\ rpc' = "return"
  /\ UNCHANGED <<mask, i, start, avars, evars>>

\* --------------------------------------------- analyze_coexistence: steps
\* no exception raised
NoError == [type |-> "None", message |-> <<>>]

AnalyzerIdle ==
  /\ density_file = "density.dat" /\ plot = FALSE /\ densities = None
  /\ statistics = None /\ thresholds = None /\ masks = None
  /\ fractions = None /\ interface_analysis = None /\ scores = None
  /\ coexistence_score = None /\ system_state = None
  /\ solid_regions = None /\ liquid_regions = None
  /\ printed = FALSE /\ plotted = FALSE /\ results = None /\ error = NoError

\* raise FileNotFoundError(f"Cannot read {density_file}")
CannotReadWithoutPath(path, why) ==
  [type |-> "FileNotFoundError", message |-> <<"Cannot read ", why>>]
CannotRead(path, why) ==
  [type |-> "FileNotFoundError", message |-> <<"Cannot read ", path>>]

\* lines 22-28: the try block; any exception becomes FileNotFoundError
Load ==
  /\ pc = "load"
  /\ \/ \E why \in LoadFailures :
          /\ error' = CannotRead(density_file, why)
          /\ pc' = "raised"
          /\ UNCHANGED densities
     \/ \E d \in DensityArrays :
          /\ densities' = d
          /\ pc' = "statistics"
          /\ UNCHANGED error
  /\ UNCHANGED <<density_file, plot, statistics, thresholds, masks, fractions,
                 interface_analysis, scores, coexistence_score, system_state,
                 solid_regions, liquid_regions, printed, plotted, results,
                 rvars, evars>>

\* lines 30-38
BasicStatistics ==
  /\ pc = "statistics"
  /\ statistics' = Statistics(densities)
  /\ pc' = "thresholds"
  /\ UNCHANGED <<density_file, plot, densities, thresholds, masks, fractions,
                 interface_analysis, scores, coexistence_score, system_state,
                 solid_regions, liquid_regions, printed, plotted, results,
                 error, rvars, evars>>

\* lines 40-54
AdaptiveThresholds ==
  /\ pc = "thresholds"
  /\ thresholds' = Thresholds(densities, statistics)
  /\ pc' = "phases"
  /\ UNCHANGED <<density_file, plot, densities, statistics, masks, fractions,
                 interface_analysis, scores, coexistence_score, system_state,
                 solid_regions, liquid_regions, printed, plotted, results,
                 error, rvars, evars>>

\* lines 56-64
PhaseIdentification ==
  /\ pc = "phases"
  /\ LET solid == SolidMask(densities, thresholds)
         liquid == LiquidMask(densities, thresholds)
     IN /\ masks' = [solid_mask |-> solid, liquid_mask |-> liquid,
                     interface_mask |-> InterfaceMask(solid, liquid)]
        /\ fractions' = [solid |-> Fraction(solid), liquid |-> Fraction(liquid),
                         interface |-> Fraction(InterfaceMask(solid, liquid))]
  /\ pc' = "interfaces"
  /\ UNCHANGED <<density_file, plot, densities, statistics, thresholds,
                 interface_analysis, scores, coexistence_score, system_state,
                 solid_regions, liquid_regions, printed, plotted, results,
                 error, rvars, evars>>

\* lines 66-85: the histogram peak count is the peak finder's answer (library
\* code), any value in 0..MaxPeaks; the gradients are computed
PeaksAndInterfaces ==
  /\ pc = "interfaces"
  /\ \E peaks \in 0..MaxPeaks :
       interface_analysis' = InterfaceAnalysis(densities, statistics, peaks)
  /\ pc' = "scoring"
  /\ UNCHANGED <<density_file, plot, densities, statistics, thresholds, masks,
                 fractions, scores, coexistence_score, system_state,
                 solid_regions, liquid_regions, printed, plotted, results,
                 error, rvars, evars>>

\* lines 87-97
Scoring ==
  /\ pc = "scoring"
  /\ scores' = Scores(statistics, fractions, interface_analysis)
  /\ coexistence_score' =
       CoexistenceScore(Scores(statistics, fractions, interface_analysis))
  /\ pc' = "classification"
  /\ UNCHANGED <<density_file, plot, densities, statistics, thresholds, masks,
                 fractions, interface_analysis, system_state,
                 solid_regions, liquid_regions, printed, plotted, results,
                 error, rvars, evars>>

\* lines 99-111
Classification ==
  /\ pc = "classification"
  /\ system_state' =
       SystemState(coexistence_score, fractions.solid, fractions.liquid)
  /\ pc' = "regions"
  /\ UNCHANGED <<density_file, plot, densities, statistics, thresholds, masks,
                 fractions, interface_analysis, scores, coexistence_score,
                 solid_regions, liquid_regions, printed, plotted, results,
                 error, rvars, evars>>

\* lines 113-120
ContinuousRegions ==
  /\ pc = "regions"
  /\ solid_regions' = FindContinuousRegions(masks.solid_mask)
  /\ liquid_regions' = FindContinuousRegions(masks.liquid_mask)
  /\ pc' = "summary"
  /\ UNCHANGED <<density_file, plot, densities, statistics, thresholds, masks,
                 fractions, interface_analysis, scores, coexistence_score,
                 system_state, printed, plotted, results, error, rvars, evars>>

\* lines 122-161: the result record is built and print_summary prints it
PrintSummary ==
  /\ pc = "summary"
  /\ results' = [system_state |-> system_state,
                 coexistence_score |-> coexistence_score,
                 score_breakdown |-> scores,
                 statistics |-> statistics,
                 thresholds |-> [high_threshold |-> thresholds.final_high,
                                 low_threshold |-> thresholds.final_low],
                 fractions |-> fractions,
                 interface_analysis |-> interface_analysis,
                 regions |-> [solid_regions |-> solid_regions,
                              liquid_regions |-> liquid_regions]]
  /\ printed' = TRUE
  /\ pc' = "plots"
  /\ UNCHANGED <<density_file, plot, densities, statistics, thresholds, masks,
                 fractions, interface_analysis, scores, coexistence_score,
                 system_state, solid_regions, liquid_regions, plotted, error,
                 rvars, evars>>

\* lines 163-167: if plot: create_plots(results); return results
PlotAndReturn ==
  /\ pc = "plots"
  /\ plotted' = plot
  /\ pc' = "returned"
  /\ UNCHANGED <<density_file, plot, densities, statistics, thresholds, masks,
                 fractions, interface_analysis, scores, coexistence_score,
                 system_state, solid_regions, liquid_regions, printed, results,
                 error, rvars, evars>>

\* ---------------------------------------------------------- muna3rdpy.py
\* a name the script has not assigned yet
Unset == [id |-> 0]

NoEosError == [type |-> "None", message |-> <<>>, line |-> 0]

EosIdle ==
  /\ epc = "idle" /\ V = Unset /\ solid_params = Unset /\ liquid_params = Unset
  /\ vol_s = Unset /\ vol_l = Unset /\ output = <<>> /\ eerror = NoEosError
  /\ trace = <<>>

\* the statements of the script in file order
EosOrder ==
  <<"load", "header", "fit_solid", "fit_liquid", "root_solid", "root_liquid",
    "print_solid", "print_liquid", "plot", "done">>

\* the statement that runs after `step` has succeeded
EosAfterPrintsSolidEarly(step) ==
  CASE step = "load" -> "header"
    [] step = "header" -> "fit_solid"
    [] step = "fit_solid" -> "fit_liquid"
    [] step = "fit_liquid" -> "root_solid"
    [] step = "root_solid" -> "print_solid"
    [] step = "print_solid" -> "root_liquid"
    [] step = "root_liquid" -> "print_liquid"
    [] step = "print_liquid" -> "plot"
    [] OTHER -> "done"
EosAfter(step) ==
  CASE step = "load" -> "header"
    [] step = "header" -> "fit_solid"
    [] step = "fit_solid" -> "fit_liquid"
    [] step = "fit_liquid" -> "root_solid"
    [] step = "root_solid" -> "root_liquid"
    [] step = "root_liquid" -> "print_solid"
    [] step = "print_solid" -> "print_liquid"
    [] step = "print_liquid" -> "plot"
    [] OTHER -> "done"

\* TARGET_PRESSURE = 0.5
TARGET_PRESSURE == [n |-> 1, d |-> 2]

\* the exceptions the library calls raise, with the line that raised them;
\* nothing in the script catches or rewords them
LoadtxtError == [type |-> "OSError", message |-> <<"VP.dat not found.">>, line |-> 10]
CurveFitError(line) ==
  [type |-> "RuntimeError",
   message |-> <<"Optimal parameters not found: Number of calls to function has reached maxfev">>,
   line |-> line]
RootScalarError(line) ==
  [type |-> "ValueError",
   message |-> <<"f(a) and f(b) must have different signs">>,
   line |-> line]

\* a fit's parameter triple and a root's volume are the library's answers,
\* named 1..MaxParam
FitResults == {[id |-> k] : k \in 1..MaxParam}

Succeeds(step) ==
  /\ epc' = EosAfter(step)
  /\ trace' = Append(trace, step)
  /\ UNCHANGED eerror

Raises(err) ==
  /\ epc' = "raised"
  /\ eerror' = err
  /\ UNCHANGED trace

\* line 10
EosLoad ==
  /\ epc = "load"
  /\ \/ \E data \in FitResults : V' = data /\ Succeeds("load")
     \/ Raises(LoadtxtError) /\ UNCHANGED V
  /\ UNCHANGED <<solid_params, liquid_params, vol_s, vol_l, output, avars, rvars>>

\* lines 11-17
EosHeader ==
  /\ epc = "header"
  /\ output' = Append(output, [block |-> "header", target |-> TARGET_PRESSURE])
  /\ Succeeds("header")
  /\ UNCHANGED <<V, solid_params, liquid_params, vol_s, vol_l, avars, rvars>>

\* line 20
FitSolid ==
  /\ epc = "fit_solid"
  /\ \/ \E fit \in FitResults : solid_params' = fit /\ Succeeds("fit_solid")
     \/ Raises(CurveFitError(20)) /\ UNCHANGED solid_params
  /\ UNCHANGED <<V, liquid_params, vol_s, vol_l, output, avars, rvars>>

\* line 21
FitLiquid ==
  /\ epc = "fit_liquid"
  /\ \/ \E fit \in FitResults : liquid_params' = fit /\ Succeeds("fit_liquid")
     \/ Raises(CurveFitError(21)) /\ UNCHANGED liquid_params
  /\ UNCHANGED <<V, solid_params, vol_s, vol_l, output, avars, rvars>>

\* line 24
RootSolid ==
  /\ epc = "root_solid"
  /\ \/ \E root \in FitResults : vol_s' = root /\ Succeeds("root_solid")
     \/ Raises(RootScalarError(24)) /\ UNCHANGED vol_s
  /\ UNCHANGED <<V, solid_params, liquid_params, vol_l, output, avars, rvars>>

\* line 25
RootLiquid ==
  /\ epc = "root_liquid"
  /\ \/ \E root \in FitResults : vol_l' = root /\ Succeeds("root_liquid")
     \/ Raises(RootScalarError(25)) /\ UNCHANGED vol_l
  /\ UNCHANGED <<V, solid_params, liquid_params, vol_s, output, avars, rvars>>

\* lines 28-30
PrintSolid ==
  /\ epc = "print_solid"
  /\ output' = Append(output, [block |-> "Solid Phase", params |-> solid_params,
                               volume |-> vol_s, target |-> TARGET_PRESSURE])
  /\ Succeeds("print_solid")
  /\ UNCHANGED <<V, solid_params, liquid_params, vol_s, vol_l, avars, rvars>>

\* line 31
PrintLiquid ==
  /\ epc = "print_liquid"
  /\ output' = Append(output, [block |-> "Liquid Phase", params |-> liquid_params,
                               volume |-> vol_l, target |-> TARGET_PRESSURE])
  /\ Succeeds("print_liquid")
  /\ UNCHANGED <<V, solid_params, liquid_params, vol_s, vol_l, avars, rvars>>

\* lines 33-38
EosPlot ==
  /\ epc = "plot"
  /\ Succeeds("plot")
  /\ UNCHANGED <<V, solid_params, liquid_params, vol_s, vol_l, output, avars, rvars>>

\* ------------------------------------------------------- specifications
\* analyze_coexistence(density_file, plot)
Init ==
  /\ pc = "load"
  /\ density_file \in Paths
  /\ plot \in BOOLEAN
  /\ densities = None /\ statistics = None /\ thresholds = None
  /\ masks = None /\ fractions = None /\ interface_analysis = None
  /\ scores = None /\ coexistence_score = None /\ system_state = None
  /\ solid_regions = None /\ liquid_regions = None
  /\ printed = FALSE /\ plotted = FALSE /\ results = None /\ error = NoError
  /\ RegionsIdle
  /\ EosIdle

Next ==
  \/ Load
  \/ BasicStatistics
  \/ AdaptiveThresholds
  \/ PhaseIdentification
  \/ PeaksAndInterfaces
  \/ Scoring
  \/ Classification
  \/ ContinuousRegions
  \/ PrintSummary
  \/ PlotAndReturn

Spec == Init /\ [][Next]_vars

\* find_continuous_regions(mask) on every mask of up to MaxMask entries
InitRegions ==
  /\ mask \in Masks
  /\ i = 0 /\ start = NoStart /\ regions = <<>> /\ rpc = "loop"
  /\ pc = "idle" /\ AnalyzerIdle
  /\ EosIdle

NextRegions == RegionLoop \/ RegionReturn

SpecRegions == InitRegions /\ [][NextRegions]_vars

\* the state label on every (score, solid_fraction, liquid_fraction) triple
ScoreFractionTriples ==
  {[score |-> sc, solid |-> [n |-> a, d |-> MaxFrac], liquid |-> [n |-> b, d |-> MaxFrac]] :
     sc \in 0..6, a \in 0..MaxFrac, b \in 0..MaxFrac}

InitClassify ==
  /\ pc = "classification"
  /\ \E t \in ScoreFractionTriples :
       /\ coexistence_score = t.score
       /\ fractions = [solid |-> t.solid, liquid |-> t.liquid]
  /\ density_file = "density.dat" /\ plot = FALSE /\ densities = None
  /\ statistics = None /\ thresholds = None /\ masks = None
  /\ interface_analysis = None /\ scores = None /\ system_state = None
  /\ solid_regions = None /\ liquid_regions = None
  /\ printed = FALSE /\ plotted = FALSE /\ results = None /\ error = NoError
  /\ RegionsIdle
  /\ EosIdle

SpecClassify == InitClassify /\ [][Classification]_vars

\* the EOS fitting script, run once
InitEOS ==
  /\ epc = "load" /\ V = Unset /\ solid_params = Unset /\ liquid_params = Unset
  /\ vol_s = Unset /\ vol_l = Unset /\ output = <<>> /\ eerror = NoEosError
  /\ trace = <<>>
  /\ pc = "idle" /\ AnalyzerIdle
  /\ RegionsIdle

NextEOS ==
  \/ EosLoad
  \/ EosHeader
  \/ FitSolid
  \/ FitLiquid
  \/ RootSolid
  \/ RootLiquid
  \/ PrintSolid
  \/ PrintLiquid
  \/ EosPlot

SpecEOS == InitEOS /\ [][NextEOS]_vars

\* ------------------------------------------------------------ properties
\* the statements of analyze_coexistence in order; Reached(p): the statement
\* before p has completed in this call
Stages ==
  <<"load", "statistics", "thresholds", "phases", "interfaces", "scoring",
    "classification", "regions", "summary", "plots", "returned">>
StageNo(p) == IF \E k \in DOMAIN Stages : Stages[k] = p
              THEN CHOOSE k \in DOMAIN Stages : Stages[k] = p ELSE 0
Reached(p) == StageNo(pc) >= StageNo(p)

C2_RegionsAreMaximalRuns ==
  rpc = "return" =>
    /\ \A r \in DOMAIN regions :
         /\ 0 <= regions[r][1]
         /\ regions[r][1] <= regions[r][2]
         /\ regions[r][2] <= Len(mask) - 1
    /\ \A k \in 0..(Len(mask) - 1) :
         mask[k + 1] <=>
           \E r \in DOMAIN regions : regions[r][1] <= k /\ k <= regions[r][2]
    /\ \A r \in 1..(Len(regions) - 1) :
         regions[r + 1][1] >= regions[r][2] + 2
    /\ (mask = <<TRUE, TRUE, FALSE, TRUE>> => regions = << <<0, 1>>, <<3, 3>> >>)
    /\ ((\A k \in DOMAIN mask : ~mask[k]) => regions = <<>>)
    /\ (mask = <<TRUE, TRUE, TRUE, TRUE, TRUE>> => regions = << <<0, 4>> >>)

\* the scan of [T,T,F,T] has returned: one run closed inside the loop, one
\* closed at the last index after it
C2_Witness ==
  /\ rpc = "return"
  /\ mask = <<TRUE, TRUE, FALSE, TRUE>>
  /\ Len(regions) = 2

Labels ==
  {"STRONG SOLID-LIQUID COEXISTENCE", "SOLID-LIQUID COEXISTENCE",
   "POSSIBLE COEXISTENCE", "PREDOMINANTLY SOLID", "PREDOMINANTLY LIQUID",
   "SINGLE PHASE"}

\* C3: for every (score, solid_fraction, liquid_fraction) the label is one of
\* the six, fixed by the first rule that matches: score >= 4, score >= 3,
\* score >= 2, then solid_fraction > 0.8, then liquid_fraction > 0.8, else
\* SINGLE PHASE; the fractions matter only when score < 2.
C3_LabelFollowsFirstMatchingRule ==
  pc = "regions" =>
    LET solidHigh == 5 * fractions.solid.n > 4 * fractions.solid.d
        liquidHigh == 5 * fractions.liquid.n > 4 * fractions.liquid.d
    IN /\ system_state \in Labels
       /\ coexistence_score >= 4 <=>
            system_state = "STRONG SOLID-LIQUID COEXISTENCE"
       /\ coexistence_score = 3 <=> system_state = "SOLID-LIQUID COEXISTENCE"
       /\ coexistence_score = 2 <=> system_state = "POSSIBLE COEXISTENCE"
       /\ (coexistence_score < 2 /\ solidHigh) <=>
            system_state = "PREDOMINANTLY SOLID"
       /\ (coexistence_score < 2 /\ ~solidHigh /\ liquidHigh) <=>
            system_state = "PREDOMINANTLY LIQUID"
       /\ (coexistence_score < 2 /\ ~solidHigh /\ ~liquidHigh) <=>
            system_state = "SINGLE PHASE"

\* a triple on which the score rule and a fraction rule both match has been
\* labelled: the score rule wins
C3_Witness ==
  /\ pc = "regions"
  /\ coexistence_score = 2
  /\ 5 * fractions.solid.n > 4 * fractions.solid.d
  /\ system_state = "POSSIBLE COEXISTENCE"

Criteria ==
  {"bimodal", "high_cv", "phase_balance", "sharp_gradients",
   "bimodality_coeff", "multiple_interfaces"}

\* C4: once scored, each of the six criteria holds 0 or 1, it holds 1 exactly
\* when its strict inequality is true of the statistics, and coexistence_score
\* is the number of criteria holding 1 (so it lies in 0..6); cv exactly 0.5 and
\* n_interfaces exactly 2 score nothing.
C4_ScoreCountsStrictCriteria ==
  Reached("classification") =>
    /\ \A c \in Criteria : scores[c] \in {0, 1}
    /\ coexistence_score = Cardinality({c \in Criteria : scores[c] = 1})
    /\ coexistence_score \in 0..6
    /\ scores.bimodal = 1 <=> interface_analysis.n_peaks >= 2
    /\ scores.high_cv = 1 <=>
         (~IsNaN(statistics.cv) /\ Cmp(statistics.cv, Rat(1, 2)) = 1)
    /\ scores.phase_balance = 1 <=>
         /\ 10 * fractions.solid.n > fractions.solid.d
         /\ 10 * fractions.liquid.n > fractions.liquid.d
    /\ scores.sharp_gradients = 1 <=>
         Cmp(interface_analysis.mean_gradient, statistics.std_density) = 1
    /\ scores.bimodality_coeff = 1 <=>
         /\ statistics.bimodality_coefficient.d # 0
         /\ ~RatGt(11, 20, statistics.bimodality_coefficient.n,
                   statistics.bimodality_coefficient.d)
         /\ ~(/\ statistics.bimodality_coefficient.n % 11 = 0
               /\ statistics.bimodality_coefficient.d % 20 = 0
               /\ statistics.bimodality_coefficient.n \div 11
                    = statistics.bimodality_coefficient.d \div 20)
    /\ scores.multiple_interfaces = 1 <=> interface_analysis.n_interfaces >= 3

\* a profile whose cv is exactly 0.5 and which has exactly 2 sharp interfaces
\* has been scored
C4_Witness ==
  /\ Reached("classification")
  /\ ~IsNaN(statistics.cv)
  /\ Cmp(statistics.cv, Rat(1, 2)) = 0
  /\ interface_analysis.n_interfaces = 2

C6_FinalThresholdsBoundedByBothMethods ==
  Reached("phases") =>
    /\ Leq(thresholds.final_high, thresholds.high_threshold)
    /\ Leq(thresholds.final_high, thresholds.outlier_high)
    /\ Leq(thresholds.low_threshold, thresholds.final_low)
    /\ Leq(thresholds.outlier_low, thresholds.final_low)
    /\ thresholds.final_high \in
         {thresholds.high_threshold, thresholds.outlier_high}
    /\ thresholds.final_low \in
         {thresholds.low_threshold, thresholds.outlier_low}

\* thresholds have been computed for a profile on which the percentile bound
\* is the smaller upper bound and the two lower bounds differ
C6_Witness ==
  /\ Reached("phases")
  /\ Lt(thresholds.outlier_high, thresholds.high_threshold)
  /\ Cmp(thresholds.low_threshold, thresholds.outlier_low) # 0

\* C7: a call whose load fails ends with FileNotFoundError naming the given
\* path, with no statistic computed, no summary printed, no plot made and no
\* result record; nothing runs after it, and no other error is ever raised.
C7_LoadFailureIsFileNotFound ==
  /\ pc = "raised" =>
       /\ error.type = "FileNotFoundError"
       /\ error.message = <<"Cannot read ", density_file>>
       /\ densities = None /\ statistics = None /\ thresholds = None
       /\ scores = None /\ system_state = None
       /\ ~printed /\ ~plotted /\ results = None
       /\ ~ENABLED Next
  /\ error.type # "None" => pc = "raised"

\* the load of prod/density.dat has failed in a call that asked for plots
C7_Witness ==
  /\ pc = "raised"
  /\ density_file = "prod/density.dat"
  /\ plot

\* C8 as stated: an error raised by a fit (lines 20-21) or a root-solve (lines
\* 24-25) names the phase that failed, and a root-solve's error names the
\* target pressure.
C8_FailureNamesPhase ==
  eerror.line \in {20, 21, 24, 25} =>
    /\ \E w \in DOMAIN eerror.message : eerror.message[w] \in {"solid", "liquid"}
    /\ eerror.line \in {24, 25} =>
         \E w \in DOMAIN eerror.message : eerror.message[w] = "0.5"

IsPrefix(s, t) == Len(s) <= Len(t) /\ \A k \in DOMAIN s : s[k] = t[k]

ResultBlocks == {k \in DOMAIN output : output[k].block # "header"}

\* C10: the completed steps are always a prefix of load, header, fit solid,
\* fit liquid, root solid, root liquid, print solid, print liquid, plot; a
\* result block is printed only with both fits and both roots done, from the
\* fitted parameters; after an error nothing runs and no result block exists.
C10_FixedOrderFailFast ==
  /\ IsPrefix(trace, EosOrder)
  /\ \A k \in ResultBlocks :
       /\ solid_params \in FitResults /\ liquid_params \in FitResults
       /\ vol_s \in FitResults /\ vol_l \in FitResults
       /\ output[k].block = "Solid Phase" =>
            output[k].params = solid_params /\ output[k].volume = vol_s
       /\ output[k].block = "Liquid Phase" =>
            output[k].params = liquid_params /\ output[k].volume = vol_l
  /\ eerror.type # "None" <=> epc = "raised"
  /\ epc = "raised" => (ResultBlocks = {} /\ ~ENABLED NextEOS)

\* the liquid root-solve has failed after the solid one succeeded: the solid
\* phase has a fit and a volume and nothing of it is printed
C10_Witness ==
  /\ epc = "raised"
  /\ eerror.line = 25
  /\ vol_s \in FitResults
  /\ ResultBlocks = {}

=============================================================================
